---- MODULE Spec2Model ----
(***************************************************************************)
(* Gradient based learning rules of mlp/learning_rules.py:                 *)
(* GradientDescentLearningRule, MomentumLearningRule, RMSPropLearningRule  *)
(* and AdamLearningRule, with their lifecycle __init__ / initialise /      *)
(* reset / update_params.                                                  *)
(*                                                                         *)
(* Tensors are numpy arrays: objects of a heap, each with an identity, a   *)
(* shape and (row-major) element data.  The lists self.params, self.moms,  *)
(* self.rms, self.first_moment and self.second_moment hold references      *)
(* (identities), so that an in-place operation (x -= y, x *= y) and a      *)
(* rebinding (xs[i] = ...) are different things, as they are in Python.    *)
(*                                                                         *)
(* Elements are floating point numbers.  numpy's float64 is modelled by a  *)
(* decimal floating point format of Digits significant digits with an      *)
(* unbounded exponent and round-half-even: every arithmetic operation      *)
(* rounds its result, small addends are absorbed by large ones, and the    *)
(* values of the docstrings' examples (0.1, 0.9, 0.999, 1e-8) are exact.   *)
(***************************************************************************)
EXTENDS Integers, Sequences, FiniteSets, TLC

\* Significant decimal digits kept by the floating point format.
Digits == 3

\* Number of update_params calls explored on one instance.
MaxUpdates == 2

\* Number of initialise calls explored on one instance.
MaxInits == 2

-----------------------------------------------------------------------------
(* Floating point numbers: <<m, e>> is m * 10^e, with m an integer of at   *)
(* most Digits digits and no trailing zero; zero is <<0, 0>>.  The three   *)
(* non-finite values have mantissa 0 and a non-zero tag.                   *)

Zero == <<0, 0>>
NaN == <<0, 1>>
PosInf == <<0, 2>>
NegInf == <<0, 3>>

IsNaN(a) == a = NaN
IsInf(a) == a = PosInf \/ a = NegInf
IsFinite(a) == ~IsNaN(a) /\ ~IsInf(a)

Abs(n) == IF n < 0 THEN -n ELSE n
Sgn(n) == IF n < 0 THEN -1 ELSE IF n > 0 THEN 1 ELSE 0
Min2(a, b) == IF a < b THEN a ELSE b

RECURSIVE Pow10(_)
Pow10(k) == IF k <= 0 THEN 1 ELSE 10 * Pow10(k - 1)

\* Number of decimal digits of n > 0.
RECURSIVE NDigits(_)
NDigits(n) == IF n < 10 THEN 1 ELSE 1 + NDigits(n \div 10)

\* |m| / 10^k rounded to the nearest integer, ties to even, sign kept.
RoundDiv(m, k) ==
    IF k = 0 THEN m
    ELSE LET p == Pow10(k)
             q == Abs(m) \div p
             r == Abs(m) % p
             up == (2 * r > p) \/ (2 * r = p /\ q % 2 = 1)
         IN  Sgn(m) * (IF up THEN q + 1 ELSE q)

RECURSIVE StripZeros(_, _)
StripZeros(m, e) ==
    IF m = 0 THEN Zero
    ELSE IF m % 10 = 0 THEN StripZeros(m \div 10, e + 1)
    ELSE <<m, e>>

\* The float nearest to m * 10^e.
F(m, e) ==
    IF m = 0 THEN Zero
    ELSE LET d == NDigits(Abs(m))
             k == IF d > Digits THEN d - Digits ELSE 0
         IN  StripZeros(RoundDiv(m, k), e + k)

\* Sign of a float: -1, 0 or 1 (0 for NaN).
Sign(a) ==
    IF a = PosInf THEN 1 ELSE IF a = NegInf THEN -1 ELSE Sgn(a[1])

\* Exponent of the leading digit of a finite non-zero float.
LeadExp(a) == a[2] + NDigits(Abs(a[1])) - 1

Neg(a) ==
    IF IsNaN(a) THEN NaN
    ELSE IF a = PosInf THEN NegInf
    ELSE IF a = NegInf THEN PosInf
    ELSE <<-a[1], a[2]>>

Add(a, b) ==
    IF IsNaN(a) \/ IsNaN(b) THEN NaN
    ELSE IF IsInf(a) THEN (IF IsInf(b) /\ a # b THEN NaN ELSE a)
    ELSE IF IsInf(b) THEN b
    ELSE IF a = Zero THEN b
    ELSE IF b = Zero THEN a
    ELSE IF LeadExp(a) - LeadExp(b) > Digits + 1 THEN a
    ELSE IF LeadExp(b) - LeadExp(a) > Digits + 1 THEN b
    ELSE LET e == Min2(a[2], b[2])
         IN  F(a[1] * Pow10(a[2] - e) + b[1] * Pow10(b[2] - e), e)

Sub(a, b) == Add(a, Neg(b))

Mul(a, b) ==
    IF IsNaN(a) \/ IsNaN(b) THEN NaN
    ELSE IF IsInf(a) \/ IsInf(b)
         THEN (IF Sign(a) * Sign(b) = 0 THEN NaN
               ELSE IF Sign(a) * Sign(b) > 0 THEN PosInf ELSE NegInf)
    ELSE F(a[1] * b[1], a[2] + b[2])

Div(a, b) ==
    IF IsNaN(a) \/ IsNaN(b) THEN NaN
    ELSE IF IsInf(a)
         THEN (IF IsInf(b) THEN NaN
               ELSE IF Sign(a) * (IF Sign(b) < 0 THEN -1 ELSE 1) > 0
                    THEN PosInf ELSE NegInf)
    ELSE IF IsInf(b) THEN Zero
    ELSE IF b = Zero
         THEN (IF a = Zero THEN NaN
               ELSE IF Sign(a) > 0 THEN PosInf ELSE NegInf)
    ELSE IF a = Zero THEN Zero
    ELSE LET da == NDigits(Abs(a[1]))
             db == NDigits(Abs(b[1]))
             A  == Abs(a[1]) * Pow10(Digits - da)
             B  == Abs(b[1]) * Pow10(Digits - db)
             N  == A * Pow10(Digits + 1)
             q  == N \div B
             st == IF N % B = 0 THEN 0 ELSE 1
         IN  F(Sign(a) * Sign(b) * (10 * q + st),
               (a[2] - (Digits - da)) - (b[2] - (Digits - db)) - (Digits + 1) - 1)

\* Largest s in lo..hi with s * s <= n.
RECURSIVE ISqrt(_, _, _)
ISqrt(n, lo, hi) ==
    IF lo >= hi THEN lo
    ELSE LET mid == (lo + hi + 1) \div 2
         IN  IF mid * mid <= n THEN ISqrt(n, mid, hi) ELSE ISqrt(n, lo, mid - 1)

\* np.sqrt: the float nearest to the square root; nan for a negative number.
Sqrt(a) ==
    IF IsNaN(a) \/ a = NegInf THEN NaN
    ELSE IF a = PosInf THEN PosInf
    ELSE IF a = Zero THEN Zero
    ELSE IF a[1] < 0 THEN NaN
    ELSE LET d  == NDigits(a[1])
             k0 == 2 * Digits - d
             k  == IF (a[2] - k0) % 2 = 0 THEN k0 ELSE k0 - 1
             M  == a[1] * Pow10(k)
             s  == ISqrt(M, 0, Pow10(Digits))
             r  == IF M - s * s > s THEN s + 1 ELSE s
         IN  F(r, (a[2] - k) \div 2)

\* a < b, a <= b as Python compares floats (False when either is nan).
Lt(a, b) == ~IsNaN(a) /\ ~IsNaN(b) /\ a # b /\ Sign(Sub(a, b)) < 0
Leq(a, b) == ~IsNaN(a) /\ ~IsNaN(b) /\ (a = b \/ Sign(Sub(a, b)) < 0)

-----------------------------------------------------------------------------
(* Tensors (numpy arrays) and the element-wise operations the rules use.   *)

Tensor(shape, data) == [shape |-> shape, data |-> data]

\* A faulty ZerosLike: np.zeros(t.size), which loses the shape.
ZerosLike_Flat(t) == [shape |-> <<Len(t.data)>>, data |-> [i \in 1..Len(t.data) |-> Zero]]

\* np.zeros_like(t): a new array of t's shape, every element 0.
ZerosLike(t) == Tensor(t.shape, [i \in 1..Len(t.data) |-> Zero])

\* An array of the given shape with every element v.
RECURSIVE Size(_)
Size(shape) == IF shape = <<>> THEN 1 ELSE Head(shape) * Size(Tail(shape))
Filled(shape, v) == Tensor(shape, [i \in 1..Size(shape) |-> v])

\* scalar * array, array + array, array - array, array * array, array / array
ScaleT(c, d) == [i \in 1..Len(d) |-> Mul(c, d[i])]
AddT(a, b) == [i \in 1..Len(a) |-> Add(a[i], b[i])]
SubT(a, b) == [i \in 1..Len(a) |-> Sub(a[i], b[i])]
DivT(a, b) == [i \in 1..Len(a) |-> Div(a[i], b[i])]
\* np.square(g)
SquareT(g) == [i \in 1..Len(g) |-> Mul(g[i], g[i])]

AllZero(d) == \A i \in 1..Len(d) : d[i] = Zero

-----------------------------------------------------------------------------
VARIABLES
    variant,            \* class of the live instance, "none" before construction
    attrs,              \* names of the attributes the instance has (its __dict__)
    learning_rate,      \* self.learning_rate
    mom_coeff,          \* self.mom_coeff
    decay_rate,         \* self.decay_rate
    first_decay_rate,   \* self.first_decay_rate
    second_decay_rate,  \* self.second_decay_rate
    params,             \* self.params: list of references to the caller's arrays
    moms,               \* self.moms: list of references
    rms,                \* self.rms: list of references
    first_moment,       \* self.first_moment: list of references
    second_moment,      \* self.second_moment: list of references
    heap,               \* the arrays: identity -> [shape, data]
    nextId,             \* identity of the next array allocated
    held,               \* the references the caller took right after initialise
    raised,             \* exception raised by the last call, "none" if it returned
    last,               \* the last call: [op, hyper, ps, grads]
    nUpdates,           \* update_params calls so far
    nInits,             \* initialise calls so far
    twin                \* parameter arrays of a second, plain gradient descent rule

hyper == <<learning_rate, mom_coeff, decay_rate, first_decay_rate, second_decay_rate>>
lists == <<params, moms, rms, first_moment, second_moment>>
vars == <<variant, attrs, hyper, lists, heap, nextId, held, raised, last,
          nUpdates, nInits, twin>>

\* The 1e-8 added to the square root in RMSProp and Adam.
EPS == F(1, -8)
One == F(1, 0)

\* The caller's model: two trainable arrays, of shapes (1,) and (1, 2).
PoolIds == {1, 2}
PoolHeap == (1 :> Tensor(<<1>>, <<Zero>>)) @@ (2 :> Tensor(<<1, 2>>, <<F(1, 0), F(2, 0)>>))

\* Parameter lists the caller passes to initialise.
ParamLists == {<<>>, <<1>>, <<1, 2>>}

\* Hyperparameter values tried at construction, valid and invalid.
LearningRates == {Zero, F(1, -1), F(1, -3)}
Coeffs == {F(-1, -1), Zero, F(9, -1), One, F(11, -1)}
SecondCoeffs == {F(-1, -1), F(999, -3), F(11, -1)}

\* Element values of the gradients passed to update_params.
GradVals == {F(-1, 0), Zero, One}

Call(op, hy, ps, gs) == [op |-> op, hyper |-> hy, ps |-> ps, grads |-> gs]

NoRefs == [params |-> <<>>, moms |-> <<>>, rms |-> <<>>,
           first_moment |-> <<>>, second_moment |-> <<>>]

Init ==
    /\ variant = "none"
    /\ attrs = {}
    /\ learning_rate = Zero
    /\ mom_coeff = Zero
    /\ decay_rate = Zero
    /\ first_decay_rate = Zero
    /\ second_decay_rate = Zero
    /\ params = <<>>
    /\ moms = <<>>
    /\ rms = <<>>
    /\ first_moment = <<>>
    /\ second_moment = <<>>
    /\ heap = PoolHeap
    /\ nextId = 3
    /\ held = NoRefs
    /\ raised = "none"
    /\ last = Call("none", <<>>, <<>>, <<>>)
    /\ nUpdates = 0
    /\ nInits = 0
    /\ twin = PoolHeap

-----------------------------------------------------------------------------
(* __init__                                                                *)

\* assert learning_rate > 0.
ValidLearningRate(lr) == Lt(Zero, lr)

\* A faulty ValidCoeff: the upper end of the range is not checked.
ValidCoeff_NoUpperBound(c) == Leq(Zero, c)

\* assert 0. <= c <= 1.
ValidCoeff(c) == Leq(Zero, c) /\ Leq(c, One)

\* A constructor whose assertion failed: no instance comes to exist.
ConstructFails(call) ==
    /\ raised' = "AssertionError"
    /\ last' = call
    /\ UNCHANGED <<variant, attrs, hyper, lists, heap, nextId, held,
                   nUpdates, nInits, twin>>

\* GradientDescentLearningRule(learning_rate=lr)
ConstructGD(lr) ==
    /\ variant = "none"
    /\ IF ValidLearningRate(lr)
       THEN /\ variant' = "GD"
            /\ attrs' = {"learning_rate"}
            /\ learning_rate' = lr
            /\ raised' = "none"
            /\ last' = Call("__init__", <<lr>>, <<>>, <<>>)
            /\ UNCHANGED <<mom_coeff, decay_rate, first_decay_rate,
                           second_decay_rate, lists, heap, nextId, held,
                           nUpdates, nInits, twin>>
       ELSE ConstructFails(Call("__init__", <<lr>>, <<>>, <<>>))

\* MomentumLearningRule(learning_rate=lr, mom_coeff=mc)
ConstructMomentum(lr, mc) ==
    /\ variant = "none"
    /\ IF ValidLearningRate(lr) /\ ValidCoeff(mc)
       THEN /\ variant' = "Momentum"
            /\ attrs' = {"learning_rate", "mom_coeff"}
            /\ learning_rate' = lr
            /\ mom_coeff' = mc
            /\ raised' = "none"
            /\ last' = Call("__init__", <<lr, mc>>, <<>>, <<>>)
            /\ UNCHANGED <<decay_rate, first_decay_rate, second_decay_rate,
                           lists, heap, nextId, held, nUpdates, nInits, twin>>
       ELSE ConstructFails(Call("__init__", <<lr, mc>>, <<>>, <<>>))

\* RMSPropLearningRule(learning_rate=lr, decay_rate=d)
ConstructRMSProp(lr, d) ==
    /\ variant = "none"
    /\ IF ValidLearningRate(lr) /\ ValidCoeff(d)
       THEN /\ variant' = "RMSProp"
            /\ attrs' = {"learning_rate", "rms", "decay_rate"}
            /\ learning_rate' = lr
            /\ rms' = <<>>
            /\ decay_rate' = d
            /\ raised' = "none"
            /\ last' = Call("__init__", <<lr, d>>, <<>>, <<>>)
            /\ UNCHANGED <<mom_coeff, first_decay_rate, second_decay_rate,
                           params, moms, first_moment, second_moment,
                           heap, nextId, held, nUpdates, nInits, twin>>
       ELSE ConstructFails(Call("__init__", <<lr, d>>, <<>>, <<>>))

\* AdamLearningRule(learning_rate=lr, first_decay_rate=b1, second_decay_rate=b2)
ConstructAdam(lr, b1, b2) ==
    /\ variant = "none"
    /\ IF ValidLearningRate(lr) /\ ValidCoeff(b1) /\ ValidCoeff(b2)
       THEN /\ variant' = "Adam"
            /\ attrs' = {"learning_rate", "first_moment", "second_moment",
                         "first_decay_rate", "second_decay_rate"}
            /\ learning_rate' = lr
            /\ first_moment' = <<>>
            /\ second_moment' = <<>>
            /\ first_decay_rate' = b1
            /\ second_decay_rate' = b2
            /\ raised' = "none"
            /\ last' = Call("__init__", <<lr, b1, b2>>, <<>>, <<>>)
            /\ UNCHANGED <<mom_coeff, decay_rate, params, moms, rms,
                           heap, nextId, held, nUpdates, nInits, twin>>
       ELSE ConstructFails(Call("__init__", <<lr, b1, b2>>, <<>>, <<>>))

-----------------------------------------------------------------------------
(* initialise                                                              *)

RECURSIVE AllocZeros(_, _, _, _)
\* for param in self.params: buf.append(np.zeros_like(param)), the new arrays
\* taking the identities from nid on: the heap with them added.
AllocZeros(h, ps, nid, i) ==
    IF i > Len(ps) THEN h
    ELSE AllocZeros(h @@ ((nid + i - 1) :> ZerosLike(h[ps[i]])), ps, nid, i + 1)

\* The references to the arrays allocated from nid on, one per parameter.
NewRefs(ps, nid) == [i \in 1..Len(ps) |-> nid + i - 1]

\* initialise(ps) of the four classes.  The caller keeps the references to
\* the parameters and, to observe them, to the buffers just allocated.
Initialise(ps) ==
    /\ variant # "none"
    /\ nInits < MaxInits
    /\ nInits' = nInits + 1
    /\ params' = ps
    /\ raised' = "none"
    /\ last' = Call("initialise", <<>>, ps, <<>>)
    /\ UNCHANGED <<variant, hyper, nUpdates, twin>>
    /\ CASE variant = "GD" ->
              /\ attrs' = attrs \cup {"params"}
              /\ held' = [NoRefs EXCEPT !.params = ps]
              /\ UNCHANGED <<moms, rms, first_moment, second_moment, heap, nextId>>
         [] variant = "Momentum" ->
              /\ attrs' = attrs \cup {"params", "moms"}
              /\ moms' = NewRefs(ps, nextId)
              /\ heap' = AllocZeros(heap, ps, nextId, 1)
              /\ nextId' = nextId + Len(ps)
              /\ held' = [NoRefs EXCEPT !.params = ps, !.moms = moms']
              /\ UNCHANGED <<rms, first_moment, second_moment>>
         [] variant = "RMSProp" ->
              /\ attrs' = attrs \cup {"params"}
              /\ rms' = NewRefs(ps, nextId)
              /\ heap' = AllocZeros(heap, ps, nextId, 1)
              /\ nextId' = nextId + Len(ps)
              /\ held' = [NoRefs EXCEPT !.params = ps, !.rms = rms']
              /\ UNCHANGED <<moms, first_moment, second_moment>>
         [] variant = "Adam" ->
              /\ attrs' = attrs \cup {"params"}
              /\ first_moment' = [i \in 1..Len(ps) |-> nextId + 2 * (i - 1)]
              /\ second_moment' = [i \in 1..Len(ps) |-> nextId + 2 * (i - 1) + 1]
              /\ heap' = heap @@ [id \in nextId..(nextId + 2 * Len(ps) - 1) |->
                                    ZerosLike(heap[ps[((id - nextId) \div 2) + 1]])]
              /\ nextId' = nextId + 2 * Len(ps)
              /\ held' = [NoRefs EXCEPT !.params = ps,
                                        !.first_moment = first_moment',
                                        !.second_moment = second_moment']
              /\ UNCHANGED <<moms, rms>>

-----------------------------------------------------------------------------
(* reset                                                                   *)

\* for x in zip(xs): x *= 0.
\* zip of one list yields 1-tuples, and tuple *= float raises TypeError on
\* the first of them; an empty list is passed over.
ZipTimesZero(xs) == IF Len(xs) > 0 THEN "TypeError" ELSE "none"

\* The outcome of reset() in the present state.
ResetOutcome ==
    CASE variant = "GD" -> "none"
      [] variant = "Momentum" ->
            IF "moms" \notin attrs THEN "AttributeError" ELSE ZipTimesZero(moms)
      [] variant = "RMSProp" -> ZipTimesZero(rms)
      [] variant = "Adam" ->
            IF ZipTimesZero(first_moment) # "none"
            THEN ZipTimesZero(first_moment)
            ELSE ZipTimesZero(second_moment)

\* reset(): no branch of it writes to an array or to an attribute.
Reset ==
    /\ variant # "none"
    /\ raised' = ResetOutcome
    /\ last' = Call("reset", <<>>, <<>>, <<>>)
    /\ UNCHANGED <<variant, attrs, hyper, lists, heap, nextId, held,
                   nUpdates, nInits, twin>>

-----------------------------------------------------------------------------
(* update_params                                                           *)

\* param -= self.learning_rate * grad
GDStep(p, g, lr) == SubT(p, ScaleT(lr, g))

\* A faulty MomStep: the momentum is never scaled by mom_coeff.
MomStep_NoDecay(m, g, lr, mc) == SubT(m, ScaleT(lr, g))

\* A faulty MomStep: the scaled gradient is added instead of subtracted.
MomStep_PlusGrad(m, g, lr, mc) == AddT(ScaleT(mc, m), ScaleT(lr, g))

\* mom *= self.mom_coeff ; mom -= self.learning_rate * grad
MomStep(m, g, lr, mc) == SubT(ScaleT(mc, m), ScaleT(lr, g))

\* A faulty RMSAvg: the squared gradient is subtracted.
RMSAvg_Minus(r, g, d) == SubT(ScaleT(d, r), ScaleT(Sub(One, d), SquareT(g)))

\* self.decay_rate * self.rms[i] + (1. - self.decay_rate) * np.square(grad)
RMSAvg(r, g, d) == AddT(ScaleT(d, r), ScaleT(Sub(One, d), SquareT(g)))

\* np.sqrt(r) + 1e-8
Denominator(r) == [i \in 1..Len(r) |-> Add(Sqrt(r[i]), EPS)]

\* self.params[i] -= grad * self.learning_rate / (np.sqrt(self.rms[i]) + 1e-8)
RMSStep(p, g, r, lr) == SubT(p, DivT(ScaleT(lr, g), Denominator(r)))

\* A faulty AdamFirst: the gradient is not weighted by 1 - first_decay_rate.
AdamFirst_NoComplement(m1, g, b1) == AddT(ScaleT(b1, m1), g)

\* self.first_decay_rate * self.first_moment[i] + (1. - self.first_decay_rate) * grad
AdamFirst(m1, g, b1) == AddT(ScaleT(b1, m1), ScaleT(Sub(One, b1), g))

\* self.second_decay_rate * self.second_moment[i]
\*     + (1. - self.second_decay_rate) * np.square(grad)
AdamSecond(m2, g, b2) == AddT(ScaleT(b2, m2), ScaleT(Sub(One, b2), SquareT(g)))

\* self.params[i] -= self.learning_rate * self.first_moment[i]
\*                       / (np.sqrt(self.second_moment[i]) + 1e-8)
AdamStep(p, m1, m2, lr) == SubT(p, DivT(ScaleT(lr, m1), Denominator(m2)))

RECURSIVE GDLoop(_, _, _, _, _)
\* for param, grad in zip(self.params, grads_wrt_params): the heap after the
\* loop.  zip stops at the end of the shorter list.
GDLoop(h, ps, gs, lr, i) ==
    IF i > Min2(Len(ps), Len(gs)) THEN h
    ELSE GDLoop([h EXCEPT ![ps[i]].data = GDStep(@, gs[i].data, lr)],
                ps, gs, lr, i + 1)

RECURSIVE MomLoop(_, _, _, _, _, _, _)
\* for param, mom, grad in zip(self.params, self.moms, grads_wrt_params)
MomLoop(h, ps, ms, gs, lr, mc, i) ==
    IF i > Min2(Len(ps), Min2(Len(ms), Len(gs))) THEN h
    ELSE LET h1 == [h EXCEPT ![ms[i]].data = MomStep(@, gs[i].data, lr, mc)]
             h2 == [h1 EXCEPT ![ps[i]].data = AddT(@, h1[ms[i]].data)]
         IN  MomLoop(h2, ps, ms, gs, lr, mc, i + 1)

RECURSIVE RMSLoop(_, _, _, _, _, _)
\* for i in range(len(self.params)), on st = [heap, rms, nid, raised]:
\* self.rms[i] is bound to the array the right-hand side allocates, then
\* self.params[i] is updated in place; grads_wrt_params[i] past the end of
\* the list raises IndexError and leaves the loop.
RMSLoop(st, ps, gs, lr, d, i) ==
    IF i > Len(ps) THEN st
    ELSE IF i > Len(gs) THEN [st EXCEPT !.raised = "IndexError"]
    ELSE LET r  == Tensor(st.heap[st.rms[i]].shape,
                          RMSAvg(st.heap[st.rms[i]].data, gs[i].data, d))
             h1 == st.heap @@ (st.nid :> r)
             h2 == [h1 EXCEPT ![ps[i]].data = RMSStep(@, gs[i].data, r.data, lr)]
         IN  RMSLoop([heap |-> h2, rms |-> [st.rms EXCEPT ![i] = st.nid],
                      nid |-> st.nid + 1, raised |-> "none"],
                     ps, gs, lr, d, i + 1)

RECURSIVE AdamLoop(_, _, _, _, _, _, _)
\* for i in range(len(self.params)), on st = [heap, first, second, nid, raised]
AdamLoop(st, ps, gs, lr, b1, b2, i) ==
    IF i > Len(ps) THEN st
    ELSE IF i > Len(gs) THEN [st EXCEPT !.raised = "IndexError"]
    ELSE LET m1 == Tensor(st.heap[st.first[i]].shape,
                          AdamFirst(st.heap[st.first[i]].data, gs[i].data, b1))
             m2 == Tensor(st.heap[st.second[i]].shape,
                          AdamSecond(st.heap[st.second[i]].data, gs[i].data, b2))
             h1 == st.heap @@ (st.nid :> m1) @@ ((st.nid + 1) :> m2)
             h2 == [h1 EXCEPT ![ps[i]].data = AdamStep(@, m1.data, m2.data, lr)]
         IN  AdamLoop([heap |-> h2, first |-> [st.first EXCEPT ![i] = st.nid],
                       second |-> [st.second EXCEPT ![i] = st.nid + 1],
                       nid |-> st.nid + 2, raised |-> "none"],
                      ps, gs, lr, b1, b2, i + 1)

\* Gradient lists the caller may pass: one array per bound parameter, of the
\* parameter's shape and filled with f; and, to break the contract, such a
\* list with its last array missing or with one array too many.
FullGrads(f) ==
    IF "params" \in attrs
    THEN [i \in 1..Len(params) |-> Filled(heap[params[i]].shape, f)]
    ELSE <<>>
ShortGrads == SubSeq(FullGrads(One), 1, Len(FullGrads(One)) - 1)
LongGrads == Append(FullGrads(One), Filled(<<1>>, One))
GradInputs ==
    {FullGrads(f) : f \in GradVals} \cup {LongGrads} \cup
    (IF FullGrads(One) = <<>> THEN {} ELSE {ShortGrads})

\* A faulty UpdateUnbound: as if __init__ had set self.params = [], the
\* loop runs over nothing and the call returns.
UpdateUnbound_EmptyLoop(gs) ==
    /\ raised' = "none"
    /\ UNCHANGED <<lists, heap, nextId>>

\* update_params(gs) on an instance without self.params: the first
\* self.params raises AttributeError.
UpdateUnbound(gs) ==
    /\ raised' = "AttributeError"
    /\ UNCHANGED <<lists, heap, nextId>>

UpdateGD(gs) ==
    /\ heap' = GDLoop(heap, params, gs, learning_rate, 1)
    /\ raised' = "none"
    /\ UNCHANGED <<lists, nextId>>

UpdateMomentum(gs) ==
    /\ heap' = MomLoop(heap, params, moms, gs, learning_rate, mom_coeff, 1)
    /\ raised' = "none"
    /\ UNCHANGED <<lists, nextId>>

UpdateRMSProp(gs) ==
    LET st == RMSLoop([heap |-> heap, rms |-> rms, nid |-> nextId, raised |-> "none"],
                      params, gs, learning_rate, decay_rate, 1)
    IN  /\ heap' = st.heap
        /\ rms' = st.rms
        /\ nextId' = st.nid
        /\ raised' = st.raised
        /\ UNCHANGED <<params, moms, first_moment, second_moment>>

UpdateAdam(gs) ==
    LET st == AdamLoop([heap |-> heap, first |-> first_moment,
                        second |-> second_moment, nid |-> nextId, raised |-> "none"],
                       params, gs, learning_rate, first_decay_rate,
                       second_decay_rate, 1)
    IN  /\ heap' = st.heap
        /\ first_moment' = st.first
        /\ second_moment' = st.second
        /\ nextId' = st.nid
        /\ raised' = st.raised
        /\ UNCHANGED <<params, moms, rms>>

\* update_params(gs) of the four classes: everything the call does.
UpdateBody(gs) ==
    /\ variant # "none"
    /\ nUpdates < MaxUpdates
    /\ nUpdates' = nUpdates + 1
    /\ last' = Call("update_params", <<>>, <<>>, gs)
    /\ UNCHANGED <<variant, attrs, hyper, held, nInits>>
    /\ IF "params" \notin attrs THEN UpdateUnbound(gs)
       ELSE CASE variant = "GD" -> UpdateGD(gs)
              [] variant = "Momentum" -> UpdateMomentum(gs)
              [] variant = "RMSProp" -> UpdateRMSProp(gs)
              [] variant = "Adam" -> UpdateAdam(gs)

UpdateParams(gs) == UpdateBody(gs) /\ UNCHANGED twin

Next ==
    \/ \E lr \in LearningRates : ConstructGD(lr)
    \/ \E lr \in LearningRates, mc \in Coeffs : ConstructMomentum(lr, mc)
    \/ \E lr \in LearningRates, d \in Coeffs : ConstructRMSProp(lr, d)
    \/ \E lr \in LearningRates, b1 \in Coeffs, b2 \in SecondCoeffs :
          ConstructAdam(lr, b1, b2)
    \/ \E ps \in ParamLists : Initialise(ps)
    \/ Reset
    \/ \E gs \in GradInputs : UpdateParams(gs)

Spec == Init /\ [][Next]_vars

-----------------------------------------------------------------------------
(* Two rules side by side: a MomentumLearningRule with mom_coeff = 0 (the  *)
(* instance of the variables above) and a GradientDescentLearningRule with *)
(* the same learning_rate, bound to its own arrays `twin`, which start     *)
(* with the same values.  Every call is made on both with the same         *)
(* arguments.                                                              *)

InitEquiv ==
    /\ variant = "Momentum"
    /\ attrs = {"learning_rate", "mom_coeff"}
    /\ learning_rate \in {lr \in LearningRates : ValidLearningRate(lr)}
    /\ mom_coeff = Zero
    /\ decay_rate = Zero
    /\ first_decay_rate = Zero
    /\ second_decay_rate = Zero
    /\ params = <<>>
    /\ moms = <<>>
    /\ rms = <<>>
    /\ first_moment = <<>>
    /\ second_moment = <<>>
    /\ heap = PoolHeap
    /\ nextId = 3
    /\ held = NoRefs
    /\ raised = "none"
    /\ last = Call("__init__", <<learning_rate, Zero>>, <<>>, <<>>)
    /\ nUpdates = 0
    /\ nInits = 0
    /\ twin = PoolHeap

\* initialise(ps) on both rules; the plain rule only stores the list.
BothInitialise(ps) == Initialise(ps)

\* update_params(gs) on both rules.
BothUpdate(gs) ==
    /\ UpdateBody(gs)
    /\ twin' = IF "params" \in attrs
               THEN GDLoop(twin, params, gs, learning_rate, 1)
               ELSE twin

NextEquiv ==
    \/ \E ps \in ParamLists : BothInitialise(ps)
    \/ \E gs \in GradInputs : BothUpdate(gs)

SpecEquiv == InitEquiv /\ [][NextEquiv]_vars

-----------------------------------------------------------------------------
(* Properties                                                              *)

Stateful == {"Momentum", "RMSProp", "Adam"}
Bound == "params" \in attrs

\* The auxiliary state lists of the live instance.
AuxLists ==
    CASE variant = "Momentum" -> <<moms>>
      [] variant = "RMSProp" -> <<rms>>
      [] variant = "Adam" -> <<first_moment, second_moment>>
      [] OTHER -> <<>>

\* The squared-gradient lists of the live instance.
SquaredLists ==
    CASE variant = "RMSProp" -> <<rms>>
      [] variant = "Adam" -> <<second_moment>>
      [] OTHER -> <<>>

AuxAllZero ==
    \A k \in 1..Len(AuxLists) : \A i \in 1..Len(AuxLists[k]) :
        AllZero(heap[AuxLists[k][i]].data)

Positive(c) == Lt(Zero, c)
InUnitInterval(c) == Leq(Zero, c) /\ Leq(c, One)

\* C1: for Momentum, RMSProp and Adam, bound to at least one parameter,
\* reset() returns normally, leaves every auxiliary array all-zero, and
\* changes no parameter value and no hyperparameter.
C1_ResetZeroesState ==
    [][(last'.op = "reset" /\ variant \in Stateful /\ Bound /\ Len(params) >= 1)
        => /\ raised' = "none"
           /\ AuxAllZero'
           /\ \A i \in 1..Len(params) : heap'[params[i]] = heap[params[i]]
           /\ params' = params
           /\ hyper' = hyper]_vars

\* C2: update_params on a bound instance with a gradient list whose length
\* differs from the number of parameters raises, and updates nothing.
C2_LengthMismatchRaises ==
    [][(last'.op = "update_params" /\ Bound /\ Len(last'.grads) # Len(params))
        => /\ raised' # "none"
           /\ heap' = heap
           /\ lists' = lists]_vars

\* C3: a constructor given learning_rate <= 0 or a coefficient outside
\* [0, 1] raises and creates nothing; one that succeeds stores its arguments
\* as given; so a live instance has learning_rate > 0 and its coefficients
\* in [0, 1]; and no later call changes a hyperparameter.
C3_HyperparametersValid ==
    /\ [](variant # "none" =>
            /\ Positive(learning_rate)
            /\ ("mom_coeff" \in attrs => InUnitInterval(mom_coeff))
            /\ ("decay_rate" \in attrs => InUnitInterval(decay_rate))
            /\ ("first_decay_rate" \in attrs => InUnitInterval(first_decay_rate))
            /\ ("second_decay_rate" \in attrs => InUnitInterval(second_decay_rate)))
    /\ [][/\ (variant = "none" /\ last'.op = "__init__") =>
               LET a == last'.hyper
                   ok == /\ Positive(a[1])
                         /\ \A i \in 2..Len(a) : InUnitInterval(a[i])
               IN  IF ok
                   THEN /\ raised' = "none"
                        /\ variant' # "none"
                        /\ learning_rate' = a[1]
                        /\ (variant' = "Momentum" => mom_coeff' = a[2])
                        /\ (variant' = "RMSProp" => decay_rate' = a[2])
                        /\ (variant' = "Adam" => /\ first_decay_rate' = a[2]
                                                 /\ second_decay_rate' = a[3])
                   ELSE /\ raised' = "AssertionError"
                        /\ variant' = "none"
                        /\ attrs' = {}
          /\ variant # "none" => (hyper' = hyper /\ variant' = variant)]_vars

\* C3 witness: AdamLearningRule(1e-3, 0.9, 1.1) has just raised.
C3_Witness ==
    /\ last.op = "__init__"
    /\ last.hyper = <<F(1, -3), F(9, -1), F(11, -1)>>
    /\ raised = "AssertionError"
    /\ variant = "none"

\* C4: update_params on an instance never initialised raises and changes no
\* array and no list; and while initialise has not been called the caller's
\* arrays hold their original values.
C4_NoUpdateBeforeInitialise ==
    /\ [](nInits = 0 => \A id \in PoolIds : heap[id] = PoolHeap[id])
    /\ [][(~Bound /\ last'.op = "update_params")
            => /\ raised' # "none"
               /\ heap' = heap
               /\ lists' = lists
               /\ attrs' = attrs]_vars

\* C4 witness: update_params with a gradient has just raised on an Adam
\* instance that was never initialised.
C4_Witness ==
    /\ variant = "Adam"
    /\ ~Bound
    /\ nInits = 0
    /\ last.op = "update_params"
    /\ Len(last.grads) = 1
    /\ raised = "AttributeError"

C6_UpdateKeepsTensorObjects ==
    Bound => /\ params = held.params
             /\ moms = held.moms
             /\ rms = held.rms
             /\ first_moment = held.first_moment
             /\ second_moment = held.second_moment

\* C7: a Momentum update sets m := mom_coeff * m - learning_rate * g and
\* then p := p + m with the new m, for every parameter that has a gradient;
\* with mom_coeff = 0.9, learning_rate = 0.1, p = [0.0], m = [0.0] and
\* gradient [1.0] twice: m = p = -0.1, then m = -0.19 and p = -0.29.
C7_MomentumUpdateRule ==
    [][(variant = "Momentum" /\ Bound /\ last'.op = "update_params") =>
        \A gs \in {last'.grads} :
        LET example == /\ learning_rate = F(1, -1)
                       /\ mom_coeff = F(9, -1)
                       /\ params = <<1>>
                       /\ gs = <<Filled(<<1>>, One)>>
        IN  /\ raised' = "none"
            /\ \A i \in 1..Min2(Len(params), Len(gs)) :
                 \A j \in 1..Len(heap[params[i]].data) :
                   LET m == Sub(Mul(mom_coeff, heap[moms[i]].data[j]),
                                Mul(learning_rate, gs[i].data[j]))
                   IN  /\ heap'[moms[i]].data[j] = m
                       /\ heap'[params[i]].data[j] = Add(heap[params[i]].data[j], m)
            /\ (example /\ heap[1].data = <<Zero>> /\ heap[moms[1]].data = <<Zero>>)
                 => /\ heap'[moms[1]].data = <<F(-1, -1)>>
                    /\ heap'[1].data = <<F(-1, -1)>>
            /\ (example /\ heap[1].data = <<F(-1, -1)>>
                        /\ heap[moms[1]].data = <<F(-1, -1)>>)
                 => /\ heap'[moms[1]].data = <<F(-19, -2)>>
                    /\ heap'[1].data = <<F(-29, -2)>>]_vars

\* C7 witness: the state after the second step of the example.
C7_Witness ==
    /\ variant = "Momentum"
    /\ learning_rate = F(1, -1)
    /\ mom_coeff = F(9, -1)
    /\ params = <<1>>
    /\ nUpdates = 2
    /\ heap[moms[1]].data = <<F(-19, -2)>>
    /\ heap[1].data = <<F(-29, -2)>>

\* C8: an Adam update sets m1 := beta1 * m1 + (1 - beta1) * g,
\* m2 := beta2 * m2 + (1 - beta2) * g^2 and then
\* p := p - learning_rate * m1 / (sqrt(m2) + 1e-8) with the new m1 and m2,
\* nothing being divided by 1 - beta^t; with the defaults (1e-3, 0.9, 0.999),
\* zero moments and gradient [1.0]: m1 = 0.1 and m2 = 0.001.
C8_AdamUpdateRule ==
    [][(variant = "Adam" /\ Bound /\ last'.op = "update_params") =>
        \A gs \in {last'.grads} :
            /\ \A i \in 1..Min2(Len(params), Len(gs)) :
                 \A j \in 1..Len(heap[params[i]].data) :
                   LET g  == gs[i].data[j]
                       m1 == Add(Mul(first_decay_rate, heap[first_moment[i]].data[j]),
                                 Mul(Sub(One, first_decay_rate), g))
                       m2 == Add(Mul(second_decay_rate, heap[second_moment[i]].data[j]),
                                 Mul(Sub(One, second_decay_rate), Mul(g, g)))
                   IN  /\ heap'[first_moment'[i]].data[j] = m1
                       /\ heap'[second_moment'[i]].data[j] = m2
                       /\ heap'[params[i]].data[j] =
                            Sub(heap[params[i]].data[j],
                                Div(Mul(learning_rate, m1), Add(Sqrt(m2), EPS)))
            /\ (/\ learning_rate = F(1, -3)
                /\ first_decay_rate = F(9, -1)
                /\ second_decay_rate = F(999, -3)
                /\ params = <<1>>
                /\ gs = <<Filled(<<1>>, One)>>
                /\ heap[first_moment[1]].data = <<Zero>>
                /\ heap[second_moment[1]].data = <<Zero>>)
                 => /\ heap'[first_moment'[1]].data = <<F(1, -1)>>
                    /\ heap'[second_moment'[1]].data = <<F(1, -3)>>]_vars

\* C8 witness: the state after the first update of the example, from the
\* parameter [0.0].
C8_Witness ==
    /\ variant = "Adam"
    /\ learning_rate = F(1, -3)
    /\ first_decay_rate = F(9, -1)
    /\ second_decay_rate = F(999, -3)
    /\ params = <<1>>
    /\ nUpdates = 1
    /\ last.op = "update_params"
    /\ heap[first_moment[1]].data = <<F(1, -1)>>
    /\ heap[second_moment[1]].data = <<F(1, -3)>>
    /\ Lt(heap[1].data[1], Zero)

\* C9: an initialise call, the first or a later one, leaves one newly
\* allocated all-zero array of the parameter's shape per parameter in each
\* auxiliary list (one list, two for Adam); and in every later state each
\* auxiliary list has one array per bound parameter, of that parameter's
\* shape.
C9_BuffersMatchParameters ==
    /\ []((Bound /\ variant \in Stateful) =>
            \A k \in 1..Len(AuxLists) :
              /\ Len(AuxLists[k]) = Len(params)
              /\ \A i \in 1..Len(params) :
                   /\ heap[AuxLists[k][i]].shape = heap[params[i]].shape
                   /\ Len(heap[AuxLists[k][i]].data) = Len(heap[params[i]].data))
    /\ [][(nInits' = nInits + 1 /\ variant \in Stateful) =>
            /\ params' = last'.ps
            /\ Len(AuxLists') = (IF variant = "Adam" THEN 2 ELSE 1)
            /\ \A k \in 1..Len(AuxLists') :
                 /\ Len(AuxLists'[k]) = Len(params')
                 /\ \A i \in 1..Len(params') :
                      /\ AuxLists'[k][i] \notin DOMAIN heap
                      /\ heap'[AuxLists'[k][i]].shape = heap[params'[i]].shape
                      /\ heap'[AuxLists'[k][i]].data =
                           [j \in 1..Len(heap[params'[i]].data) |-> Zero]
            /\ Cardinality({AuxLists'[k][i] :
                              k \in 1..Len(AuxLists'), i \in 1..Len(params')})
                 = Len(AuxLists') * Len(params')]_vars

\* C9 witness: an Adam instance just bound to both arrays by its second
\* initialise, after one update under its first binding; the identities
\* allocated so far show that the first binding was to a single parameter.
C9_Witness ==
    /\ variant = "Adam"
    /\ nInits = 2
    /\ nUpdates = 1
    /\ last.op = "initialise"
    /\ params = <<1, 2>>
    /\ nextId = 11
    /\ heap[1] # PoolHeap[1]
    /\ heap[second_moment[2]].shape = <<1, 2>>

\* C10: in RMSProp and Adam every element of a squared-gradient array is
\* >= 0, so the divisor sqrt(r) + 1e-8 is at least 1e-8 and positive, and
\* no array ever holds the inf or nan a division by zero would leave.
C10_SquaredAverageNonNegative ==
    /\ \A k \in 1..Len(SquaredLists) : \A i \in 1..Len(SquaredLists[k]) :
         \A j \in 1..Len(heap[SquaredLists[k][i]].data) :
           \A r \in {heap[SquaredLists[k][i]].data[j]} :
             /\ Leq(Zero, r)
             /\ Leq(EPS, Add(Sqrt(r), EPS))
             /\ Lt(Zero, Add(Sqrt(r), EPS))
    /\ \A id \in DOMAIN heap : \A j \in 1..Len(heap[id].data) :
         IsFinite(heap[id].data[j])

\* C10 witness: an RMSProp update with a zero gradient on an all-zero
\* buffer has returned.
C10_Witness ==
    /\ variant = "RMSProp"
    /\ params = <<1>>
    /\ last.op = "update_params"
    /\ last.grads = <<Filled(<<1>>, Zero)>>
    /\ raised = "none"
    /\ AllZero(heap[rms[1]].data)
    /\ rms # held.rms

====
